---- MODULE Spec2Model ----
(***************************************************************************)
(* Notification lifecycle and quota engine of the notification platform:   *)
(* the redis quota cache (internal/repository/cache/redis), the gorm       *)
(* notification DAO, the notification repository that orchestrates both,   *)
(* and the TxPrepare / TxCommit / TxCancel handlers of the gRPC server.    *)
(*                                                                         *)
(* Every exported call is made by one of two concurrent callers.  A        *)
(* call that touches the two stores in several round trips is split into   *)
(* one action per round trip (a redis command or script, a SQL statement   *)
(* or transaction), so that other callers interleave where the code lets   *)
(* them.                                                                   *)
(***************************************************************************)
EXTENDS Integers, Sequences, FiniteSets, TLC

\* ------------------------------------------------------------------ bounds
MaxRows == 2
MaxQuota == 2
\* calls a run makes: of the creating operations or of the quota cache alone,
\* and of the others
MaxCreateCalls == 2
MaxCalls == 3
MaxTick == 1
MaxBatch == 2
MaxVersion == 3
\* calls a run of the send handlers makes
MaxStrategyCalls == 2
\* the distributed lock: the largest RetryCount and Expiration (in seconds) of
\* a LockerOption, and the calls of Lock and Unlock in a run
MaxRetry == 2
MaxExpiration == 2
MaxLockCalls == 4
\* service discovery: the writes to the service keys in a run
MaxRevision == 4
\* one tick of the model clock, in seconds, and the first instant modelled
TickSeconds == 60
StartTick == 4

\* ------------------------------------------------------- program constants
defaultQuotaNumber == 1
MinuteMilli == 60000
\* SendTimeWindow: the default end of an immediate send and the tolerance of a
\* scheduled one, in milliseconds
defaultEndDuration == 1800000
scheduledTimeTolerance == 3000

Procs == {"c1", "c2"}
IDs == 1 .. MaxRows
BizIDs == {1}
Keys == {"k1", "k2"}
Channels == {"SMS", "EMAIL"}
QuotaKeys == BizIDs \X Channels

SendStatusPrepare == "PREPARE"
SendStatusCanceled == "CANCELED"
SendStatusPending == "PENDING"
SendStatusSending == "SENDING"
SendStatusSucceeded == "SUCCEEDED"
SendStatusFailed == "FAILED"
SendStatuses ==
    {SendStatusPrepare, SendStatusCanceled, SendStatusPending,
     SendStatusSending, SendStatusSucceeded, SendStatusFailed}
TerminalStatuses == {SendStatusSucceeded, SendStatusFailed, SendStatusCanceled}

\* the Version a caller may leave in the entity it hands to a create call
CallerVersions == {0, 2}

VARIABLES
    quota,      \* redis: quota:<bizID>:<channel> -> integer counter
    rows,       \* mysql: the notifications table, row i has ID i
    now,        \* the wall clock, in ticks
    pc,         \* per caller: where its current call stands
    loc,        \* per caller: the call it makes (or made last) and its arguments
    ret,        \* what the call that returned last returned
    seed,       \* history: the quota each counter was seeded with
    refunds,    \* history: per notification ID, refunds issued on its behalf
    casWon,     \* history: per (ID, expected version), the CASStatus calls that won
    casLost,    \* history: per (ID, expected version), the CASStatus calls that lost
    rejected,   \* history: the items of the batch create MutiDecr rejected last
    created,    \* history: per (BizID, Key), single creates returned, by error
    ncalls,     \* history: calls started so far
    maxcalls,   \* the calls this run may start
    app,        \* ioc.App: where Run stands, the calls it made, what it returned
    lockKey,    \* redis: the key of the distributed lock, its value and expiry
    dm,         \* per caller: its DistributeMutex (value, options)
    etcd,       \* etcd: the service keys and the address under each
    watchChan,  \* etcd: the watch events not yet delivered to StartWatch
    sd          \* discovery.ServiceDiscovery: its watch and its serviceCache

\* the application, the lock and the discovery client
infra == <<app, lockKey, dm, etcd, watchChan, sd>>

\* the notification engine: the quota cache, the table, the calls and their
\* history
engine ==
    <<quota, rows, now, pc, loc, ret, seed, refunds, casWon, casLost, rejected, created,
      ncalls, maxcalls>>

vars ==
    <<quota, rows, now, pc, loc, ret, seed, refunds, casWon, casLost, rejected, created,
      ncalls, maxcalls, app, lockKey, dm, etcd, watchChan, sd>>

\* ------------------------------------------------------------------- time
\* time.Now().Unix() and time.Now().UnixMilli() at clock tick t
Unix(t) == t * TickSeconds
UnixMilli(t) == t * TickSeconds * 1000

\* ---------------------------------------------------------- send strategy
\* Instants are milliseconds since the epoch, durations are milliseconds.
\* The zero time.Time lies before the epoch and every instant a request names.
ZeroTime == 0 - 1
IsZero(t) == t = ZeroTime

SendStrategyImmediate == "IMMEDIATE"
SendStrategyDelayed == "DELAYED"
SendStrategyScheduled == "SCHEDULED"
SendStrategyTimeWindow == "TIME_WINDOW"
SendStrategyDeadline == "DEADLINE"

SendStrategyConfig(ty, d, sched, st, en, dl) ==
    [type |-> ty, delay |-> d, scheduledTime |-> sched, startTime |-> st, endTime |-> en,
     deadlineTime |-> dl]
NoStrategy == SendStrategyConfig("", 0, ZeroTime, ZeroTime, ZeroTime, ZeroTime)

\* fault: a scheduled window that opens at the instant of the computation
windowFromNow(e, T) ==
    IF e.type = SendStrategyTimeWindow THEN <<e.startTime, e.endTime>>
    ELSE IF e.type = SendStrategyScheduled THEN <<T, e.scheduledTime>>
    ELSE IF e.type = SendStrategyDeadline THEN <<T, e.deadlineTime>>
    ELSE IF e.type = SendStrategyDelayed THEN <<T, T + e.delay>>
    ELSE <<T, T + defaultEndDuration>>

\* SendStrategyConfig.SendTimeWindow, with T what time.Now() returns
SendTimeWindow(e, T) ==
    CASE e.type = SendStrategyImmediate -> <<T, T + defaultEndDuration>>
      [] e.type = SendStrategyDelayed -> <<T, T + e.delay>>
      [] e.type = SendStrategyDeadline -> <<T, e.deadlineTime>>
      [] e.type = SendStrategyTimeWindow -> <<e.startTime, e.endTime>>
      [] e.type = SendStrategyScheduled ->
            <<e.scheduledTime - scheduledTimeTolerance, e.scheduledTime>>
      [] OTHER -> <<T, T>>

\* SendStrategyConfig.Validate, with T what time.Now() returns
Validate(e, T) ==
    CASE e.type = SendStrategyImmediate -> "nil"
      [] e.type = SendStrategyDelayed ->
            IF e.delay <= 0 THEN "ErrInvalidParameter" ELSE "nil"
      [] e.type = SendStrategyScheduled ->
            IF IsZero(e.scheduledTime) \/ e.scheduledTime < T
                THEN "ErrInvalidParameter" ELSE "nil"
      [] e.type = SendStrategyTimeWindow ->
            IF IsZero(e.startTime) \/ e.startTime > e.endTime
                THEN "ErrInvalidParameter" ELSE "nil"
      [] e.type = SendStrategyDeadline ->
            IF IsZero(e.deadlineTime) \/ e.deadlineTime < T
                THEN "ErrInvalidParameter" ELSE "nil"
      [] OTHER -> "nil"

\* Notification.IsImmediate
IsImmediate(e) == e.type = SendStrategyImmediate

\* Notification.ReplaceAsyncImmediate, with T what time.Now() returns
ReplaceAsyncImmediate(e, T) ==
    IF IsImmediate(e)
        THEN [e EXCEPT !.deadlineTime = T + MinuteMilli, !.type = SendStrategyDeadline]
        ELSE e

\* notificationpb.SendStrategy, the strategy of a request: the member of the
\* oneof that is set (kind, "none" for a request without strategy), whether
\* the message of that member and its timestamp are there (present), and the
\* fields of the members
SendStrategy(kind, present, delaySeconds, t, st, en) ==
    [kind |-> kind, present |-> present, delaySeconds |-> delaySeconds, time |-> t,
     startTimeMilliseconds |-> st, endTimeMilliseconds |-> en]

\* domain.getDomainSendStrategyConfig: the strategy stays IMMEDIATE unless the
\* member that is set passes the test of its case; Delay is delaySeconds
\* seconds, StartTime and EndTime are time.Unix(milliseconds, 0)
getDomainSendStrategyConfig(s) ==
    LET ty == CASE s.kind = "Delayed" /\ s.present /\ s.delaySeconds > 0 -> SendStrategyDelayed
                [] s.kind = "Scheduled" /\ s.present -> SendStrategyScheduled
                [] s.kind = "TimeWindow" /\ s.present -> SendStrategyTimeWindow
                [] s.kind = "Deadline" /\ s.present -> SendStrategyDeadline
                [] OTHER -> SendStrategyImmediate
    IN  SendStrategyConfig(
            ty,
            IF ty = SendStrategyDelayed THEN s.delaySeconds * 1000 ELSE 0,
            IF ty = SendStrategyScheduled THEN s.time ELSE ZeroTime,
            IF ty = SendStrategyTimeWindow THEN s.startTimeMilliseconds * 1000 ELSE 0,
            IF ty = SendStrategyTimeWindow THEN s.endTimeMilliseconds * 1000 ELSE 0,
            IF ty = SendStrategyDeadline THEN s.time ELSE ZeroTime)

\* --------------------------------------------------------------- entities
\* domain.Notification as far as the engine reads it; stime and etime are
\* ScheduledSTime and ScheduledETime
Entity(id, b, k, c, s, v) ==
    [id |-> id, bizID |-> b, key |-> k, channel |-> c, status |-> s, version |-> v,
     stime |-> ZeroTime, etime |-> ZeroTime]
NoEntity == Entity(0, 0, "-", "-", "-", 0)
\* a call in progress: its arguments, the strategy of its notification (cfg)
\* and the strategy of the request it was converted from (req), the
\* strategies of the notifications of its batch (cfgs), the mutex a Lock or
\* Unlock is called on (dm) and the retries a Lock has left (retryCount),
\* the handler that makes it when a handler does (rpc), its context (ctx),
\* the error its DAO call
\* returned (err), and a history field: the counters it decrements, as its
\* decrement found them (before)
Snapshot(q, ks) == [k \in ks |-> q[k]]
NoCall ==
    [op |-> "none", n |-> NoEntity, batch |-> <<>>, failed |-> <<>>, ids |-> {}, start |-> 0,
     ctx |-> "live", err |-> "nil", before |-> Snapshot(<<>>, {}), cfg |-> NoStrategy,
     rpc |-> "none", req |-> SendStrategy("none", FALSE, 0, 0, 0, 0), cfgs |-> <<>>,
     dm |-> "", retryCount |-> 0]
Result(e, n) == [err |-> e, n |-> n, resp |-> <<>>]

\* what a send handler answers: a SendNotificationResponse per notification,
\* its NotificationId and Status
SendNotificationResponse(id, st) == [id |-> id, status |-> st]
Response(rs) == [err |-> "nil", n |-> 0, resp |-> rs]
Ok == Result("nil", 0)

SeqsUpTo(S, n) == UNION {[1 .. m -> S] : m \in 0 .. n}

\* the entity a caller holds of stored notification id, as toDomain returns it
StoredEntity(id) ==
    Entity(id, rows[id].bizID, rows[id].key, rows[id].channel, rows[id].status,
           rows[id].version)

\* what a call still reads of its entity n once the DAO call has returned
Kept(n) == Entity(n.id, n.bizID, "-", n.channel, "-", 0)

\* ------------------------------------------------------------ quota cache
key(b, c) == <<b, c>>

\* tonumber(redis.call('GET', key) or 0): a key that is absent (outside the
\* domain of q) reads as 0
Get(q, k) == IF k \in DOMAIN q THEN q[k] ELSE 0

\* SET, INCRBY and DECRBY create the key they write
Set(q, k, v) == [x \in DOMAIN q \cup {k} |-> IF x = k THEN v ELSE q[x]]

\* fault: a script that always adds
incrByScript(current, x) == current + x

\* lua/quota.lua
quotaScript(current, x) ==
    IF current < 0 THEN x
    ELSE IF current > 0 THEN current + x
    ELSE x

\* fault: a refund that does nothing
noIncr(q, b, c, n) == q

Incr(q, b, c, n) == Set(q, key(b, c), quotaScript(Get(q, key(b, c)), n))

\* DECRBY, whose result Decr compares with 0 after the fact
DecrBy(q, b, c, n) == Set(q, key(b, c), Get(q, key(b, c)) - n)

\* fault: a Decr that does not look at the result
DecrUnchecked(q, b, c, n) == [q |-> DecrBy(q, b, c, n), err |-> "nil"]
Decr(q, b, c, n) ==
    [q |-> DecrBy(q, b, c, n),
     err |-> IF DecrBy(q, b, c, n)[key(b, c)] < 0 THEN "ErrQuotaLessThenZero" ELSE "nil"]

\* repository.getItems: one IncrItem per distinct (BizID, Channel), Val the
\* number of notifications of the list with that pair
getItems(ns) ==
    LET ks == {key(ns[i].bizID, ns[i].channel) : i \in DOMAIN ns}
    IN  [k \in ks |->
            Cardinality({i \in DOMAIN ns : key(ns[i].bizID, ns[i].channel) = k})]

\* lua/batch_decr_quota.lua: the keys whose value is below the threshold
Insufficient(q, items) == {k \in DOMAIN items : Get(q, k) < items[k]}

\* fault: a script that decrements every key that has enough, whatever the others
decrWhereSufficient(q, items) ==
    [k \in DOMAIN q |->
        IF k \in DOMAIN items /\ q[k] >= items[k] THEN q[k] - items[k] ELSE q[k]]

batchDecrQuotaScript(q, items) ==
    IF Insufficient(q, items) # {}
        THEN q
        ELSE [k \in DOMAIN q \cup DOMAIN items |->
                IF k \in DOMAIN items THEN Get(q, k) - items[k] ELSE q[k]]
MutiDecr(q, items) ==
    [q |-> batchDecrQuotaScript(q, items),
     err |-> IF Insufficient(q, items) # {} THEN "ErrQuotaLessThenZero" ELSE "nil"]

\* fault: a script that adds 1 to every key, whatever its item asks
incrEachByOne(q, items) ==
    [k \in DOMAIN q |-> IF k \in DOMAIN items THEN q[k] + 1 ELSE q[k]]

\* lua/batch_incr_quota.lua
batchIncrQuotaScript(q, items) ==
    [k \in DOMAIN q \cup DOMAIN items |->
        IF k \in DOMAIN items
            THEN IF Get(q, k) < 0 THEN items[k] ELSE Get(q, k) + items[k]
            ELSE q[k]]
MutiIncr(q, items) == batchIncrQuotaScript(q, items)

\* quotaCache.getKeysAndQuotas: KEYS and ARGV of a list of IncrItems whose
\* keys are distinct, as the threshold of each key
getKeysAndQuotas(list) ==
    [k \in {list[i].k : i \in DOMAIN list} |->
        list[CHOOSE i \in DOMAIN list : list[i].k = k].val]

\* fault: a script that reports the last insufficient key
lastInsufficientKey(q, list) ==
    LET bad == {i \in DOMAIN list : Get(q, list[i].k) < list[i].val}
    IN  IF bad = {} THEN <<>> ELSE list[CHOOSE i \in bad : \A j \in bad : j <= i].k

\* lua/batch_decr_quota.lua, its return value: the first key of the list, in
\* list order, whose value is below its threshold (<<>> for the empty string)
batchDecrQuotaKey(q, list) ==
    LET bad == {i \in DOMAIN list : Get(q, list[i].k) < list[i].val}
    IN  IF bad = {} THEN <<>> ELSE list[CHOOSE i \in bad : \A j \in bad : i <= j].k

\* -------------------------------------------------------- notification DAO
\* a stored row: the columns the engine reads or writes, the callback log of
\* the notification (cb: NONE when it has none), and three history fields:
\* at (the tick of the last status write), via (the operation that made it),
\* muts (status writes since the insert)
\* and asked (history: the caller used a ...WithCallbackLog method)
NewRow(n, withLog, asked) ==
    [bizID |-> n.bizID, key |-> n.key, channel |-> n.channel, status |-> n.status,
     version |-> n.version, utime |-> UnixMilli(now), stime |-> n.stime, etime |-> n.etime,
     cb |-> IF withLog THEN "INIT" ELSE "NONE",
     at |-> now, via |-> "create", muts |-> 0, asked |-> asked]

\* fault: a table without idx_biz_id_key
noUniqueIndex(rs, n) == FALSE

\* idx_biz_id_key: error 1062 of the insert
isUniqueConstraintError(rs, n) ==
    \E i \in DOMAIN rs : rs[i].bizID = n.bizID /\ rs[i].key = n.key

\* UPDATE notifications SET status, version = version + 1, utime WHERE id IN ids
UpdateRows(rs, ids, st, ut, op) ==
    [i \in DOMAIN rs |->
        IF i \in ids
            THEN [rs[i] EXCEPT !.status = st, !.version = @ + 1, !.utime = ut,
                               !.at = now, !.via = op, !.muts = @ + 1]
            ELSE rs[i]]

\* UPDATE callback_logs SET status = 'PENDING' WHERE notification_id IN ids
UpdateCallbackLogs(rs, ids) ==
    [i \in DOMAIN rs |->
        IF i \in ids /\ rs[i].cb # "NONE" THEN [rs[i] EXCEPT !.cb = "PENDING"] ELSE rs[i]]

\* ------------------------------------------------------------------ calls
Begin(p) ==
    /\ pc[p] = "idle"
    /\ ncalls < maxcalls
    /\ ncalls' = ncalls + 1
    /\ maxcalls' = maxcalls

Jump(p, label, call) ==
    /\ pc' = [pc EXCEPT ![p] = label]
    /\ loc' = [loc EXCEPT ![p] = call]
    /\ ret' = ret

\* the call of p returns r; its arguments are forgotten
Finish(p, r) ==
    /\ pc' = [pc EXCEPT ![p] = "idle"]
    /\ loc' = [loc EXCEPT ![p] = NoCall]
    /\ ret' = r

\* the steps of the notification engine leave the application, the lock and
\* the discovery client alone
Goto(p, label, call) == Jump(p, label, call) /\ UNCHANGED infra
Return(p, r) == Finish(p, r) /\ UNCHANGED infra

\* history: a single create on (b, k) returned err
Count(b, k, err) == [created EXCEPT ![<<b, k>>][err] = @ + 1]

\* notificationRepository.Create / CreateWithCallbackLog, first round trip:
\* quotaCache.Decr
repoCreate(p, call) ==
    LET n == call.n
        d == Decr(quota, n.bizID, n.channel, defaultQuotaNumber)
    IN  /\ quota' = d.q
        /\ IF d.err # "nil"
              THEN /\ Return(p, Result(d.err, 0))
                   /\ created' = Count(n.bizID, n.key, d.err)
              ELSE /\ Goto(p, "create_dao",
                           [call EXCEPT !.before = Snapshot(quota, {key(n.bizID, n.channel)})])
                   /\ created' = created
        /\ UNCHANGED <<rows, now, seed, refunds, casWon, casLost, rejected>>

\* a call of the repository method by a caller that makes nothing else
CreateDecr(p, op, n) == Begin(p) /\ repoCreate(p, [NoCall EXCEPT !.op = op, !.n = n])

\* the Version of the entity is read by the insert alone (daoCreate draws it)
Create(p) ==
    \E b \in BizIDs, k \in Keys, c \in Channels :
        CreateDecr(p, "Create", Entity(0, b, k, c, SendStatusPending, 0))

CreateWithCallbackLog(p) ==
    \E b \in BizIDs, k \in Keys, c \in Channels :
        CreateDecr(p, "CreateWithCallbackLog", Entity(0, b, k, c, SendStatusPending, 0))

\* NotificationServer.TxPrepare: repo.Create with Status = PREPARE
TxPrepare(p) ==
    \E b \in BizIDs, k \in Keys, c \in Channels :
        CreateDecr(p, "TxPrepare", Entity(0, b, k, c, SendStatusPrepare, 0))

\* fault: an insert that stores the Version the caller left in the entity
callerVersion(v) == v

\* notificationDAO.create: the Version the insert stores for an entity that
\* carries Version v
createVersion(v) == 1

\* fault: every insert writes a callback log
alwaysCallbackLog(op) == TRUE

\* the createCallbackLog flag the DAO wrapper of the repository method passes
createCallbackLog(op) == op \in {"CreateWithCallbackLog", "BatchCreateWithCallbackLog"}

\* history: the repository method asks for callback logs by its name
AsksCallbackLog(op) == op \in {"CreateWithCallbackLog", "BatchCreateWithCallbackLog"}

\* notificationDAO.create: the insert transaction (notification row and, when
\* asked for, its callback log); a canceled context fails it before it starts.
\* SendNotification goes on with the notification it created when its
\* strategy is immediate; every other caller returns.
daoCreate(p) ==
    LET n == loc[p].n
        withLog == createCallbackLog(loc[p].op)
    IN  /\ pc[p] = "create_dao"
        /\ IF loc[p].ctx = "canceled"
              THEN /\ Goto(p, "create_refund", [loc[p] EXCEPT !.err = "Canceled"])
                   /\ UNCHANGED <<rows, created>>
              ELSE IF isUniqueConstraintError(rows, n)
              THEN /\ Goto(p, "create_refund",
                           [loc[p] EXCEPT !.err = "ErrNotificationDuplicate"])
                   /\ UNCHANGED <<rows, created>>
              ELSE /\ Len(rows) < MaxRows
                   /\ \E v \in CallerVersions :
                        rows' = Append(rows, NewRow([n EXCEPT !.version = createVersion(v)],
                                                    withLog, AsksCallbackLog(loc[p].op)))
                   /\ IF loc[p].rpc = "SendNotification" /\ IsImmediate(loc[p].cfg)
                         THEN Goto(p, "srv_mark", [loc[p] EXCEPT !.n.id = Len(rows) + 1])
                         ELSE IF loc[p].rpc = "SendNotification"
                         THEN Return(p, Response(<<SendNotificationResponse(
                                                      Len(rows) + 1, SendStatusPending)>>))
                         ELSE Return(p, Ok)
                   /\ created' = Count(n.bizID, n.key, "nil")
        /\ UNCHANGED <<quota, now, seed, refunds, casWon, casLost, rejected, ncalls, maxcalls>>

\* notificationDAO.create fails on the store's side: the insert of the row
\* fails (the error is returned as it is), or the insert of the callback log
\* does; the transaction rolls back
daoCreateFails(p) ==
    /\ pc[p] = "create_dao"
    /\ loc[p].ctx = "live"
    /\ \E e \in {"ErrStore"} \cup
                (IF createCallbackLog(loc[p].op) THEN {"ErrCreateCallbackLogFailed"} ELSE {}) :
            Goto(p, "create_refund", [loc[p] EXCEPT !.err = e])
    /\ UNCHANGED <<quota, rows, now, seed, refunds, casWon, casLost, rejected, created,
                   ncalls, maxcalls>>

\* the compensation of Create: quotaCache.Incr with the context of the call
\* (a canceled context fails it before the script runs; the failure is
\* logged), then the insert's error
CreateRefund(p) ==
    /\ pc[p] = "create_refund"
    /\ quota' = IF loc[p].ctx = "canceled" THEN quota
                ELSE Incr(quota, loc[p].n.bizID, loc[p].n.channel, defaultQuotaNumber)
    /\ Return(p, Result(loc[p].err, 0))
    /\ created' = IF loc[p].err = "ErrNotificationDuplicate"
                    THEN Count(loc[p].n.bizID, loc[p].n.key, loc[p].err)
                    ELSE created
    /\ UNCHANGED <<rows, now, seed, refunds, casWon, casLost, rejected, ncalls, maxcalls>>

\* the caller cancels the context of its call before the call's next round trip
Cancel(p) ==
    /\ pc[p] \in {"create_dao", "create_refund", "batch_decr", "batch_dao", "batch_refund",
                  "mark_refund", "bupdate_refund"}
    /\ loc[p].ctx = "live"
    /\ loc' = [loc EXCEPT ![p].ctx = "canceled"]
    /\ UNCHANGED <<quota, rows, now, pc, ret, seed, refunds, casWon, casLost, rejected,
                   created, ncalls, maxcalls, infra>>

\* notificationRepository.batchCreate is called with the list ns: an empty
\* list returns at once
batchCreate(p, op, ns) ==
    /\ Begin(p)
    /\ IF Len(ns) = 0
          THEN Return(p, Ok)
          ELSE Goto(p, "batch_decr", [NoCall EXCEPT !.op = op, !.batch = ns])
    /\ UNCHANGED <<quota, rows, now, seed, refunds, casWon, casLost, rejected, created>>

\* batchCreate, first round trip: quotaCache.MutiDecr of the aggregated items
batchCreateDecr(p) ==
    LET d == MutiDecr(quota, getItems(loc[p].batch))
    IN  /\ pc[p] = "batch_decr"
        /\ IF loc[p].ctx = "canceled"
              THEN /\ quota' = quota
                   /\ Return(p, Result("Canceled", 0))
                   /\ rejected' = rejected
              ELSE /\ quota' = d.q
                   /\ IF d.err # "nil"
                         THEN /\ Return(p, Result(d.err, 0))
                              /\ rejected' = getItems(loc[p].batch)
                         ELSE /\ Goto(p, "batch_dao",
                                      [loc[p] EXCEPT
                                          !.before = Snapshot(quota, DOMAIN getItems(loc[p].batch))])
                              /\ rejected' = rejected
        /\ UNCHANGED <<rows, now, seed, refunds, casWon, casLost, created, ncalls, maxcalls>>

NewEntities == {Entity(0, b, k, c, SendStatusPending, 0) : b \in BizIDs, k \in Keys, c \in Channels}

BatchCreate(p) ==
    \E ns \in SeqsUpTo(NewEntities, MaxBatch) : batchCreate(p, "BatchCreate", ns)

BatchCreateWithCallbackLog(p) ==
    \E ns \in SeqsUpTo(NewEntities, MaxBatch) :
        batchCreate(p, "BatchCreateWithCallbackLog", ns)

\* the rows of a batch, appended in list order
RECURSIVE AppendRows(_, _, _, _)
AppendRows(rs, ns, withLog, asked) ==
    IF ns = <<>> THEN rs
    ELSE AppendRows(Append(rs, NewRow([Head(ns) EXCEPT !.version = createVersion(0)],
                                      withLog, asked)),
                    Tail(ns), withLog, asked)

\* a key of the batch is stored already, or the batch holds it twice
batchUniqueConstraintError(rs, ns) ==
    \/ \E i \in DOMAIN ns : isUniqueConstraintError(rs, ns[i])
    \/ \E i, j \in DOMAIN ns :
        i # j /\ ns[i].bizID = ns[j].bizID /\ ns[i].key = ns[j].key

\* notificationDAO.batchCreate: one transaction inserts every row (and every
\* callback log) or none
daoBatchCreate(p) ==
    LET ns == loc[p].batch
        withLog == createCallbackLog(loc[p].op)
    IN  /\ pc[p] = "batch_dao"
        /\ IF loc[p].ctx = "canceled"
              THEN /\ rows' = rows
                   /\ Goto(p, "batch_refund", [loc[p] EXCEPT !.err = "Canceled"])
              ELSE IF batchUniqueConstraintError(rows, ns)
              THEN /\ rows' = rows
                   /\ Goto(p, "batch_refund",
                           [loc[p] EXCEPT !.err = "ErrNotificationDuplicate"])
              ELSE /\ Len(rows) + Len(ns) <= MaxRows
                   /\ rows' = AppendRows(rows, ns, withLog, AsksCallbackLog(loc[p].op))
                   /\ IF loc[p].rpc = "BatchSendNotifications"
                         THEN Goto(p, "srv_batch",
                                   [loc[p] EXCEPT !.batch =
                                        [i \in DOMAIN ns |->
                                            [ns[i] EXCEPT !.id = Len(rows) + i,
                                                          !.version = createVersion(0)]]])
                         ELSE Return(p, Ok)
        /\ UNCHANGED <<quota, now, seed, refunds, casWon, casLost, rejected, created,
                       ncalls, maxcalls>>

\* notificationDAO.batchCreate fails on the store's side: the batch insert of
\* the rows or the one of the callback logs fails, the transaction rolls back
daoBatchCreateFails(p) ==
    /\ pc[p] = "batch_dao"
    /\ loc[p].ctx = "live"
    /\ \E e \in {"ErrStore"} \cup
                (IF createCallbackLog(loc[p].op) THEN {"ErrCreateCallbackLogFailed"} ELSE {}) :
            Goto(p, "batch_refund", [loc[p] EXCEPT !.err = e])
    /\ UNCHANGED <<quota, rows, now, seed, refunds, casWon, casLost, rejected, created,
                   ncalls, maxcalls>>

\* the compensation of batchCreate: quotaCache.MutiIncr of the same items,
\* with the context of the call
BatchCreateRefund(p) ==
    /\ pc[p] = "batch_refund"
    /\ quota' = IF loc[p].ctx = "canceled" THEN quota
                ELSE MutiIncr(quota, getItems(loc[p].batch))
    /\ Return(p, Result(loc[p].err, 0))
    /\ UNCHANGED <<rows, now, seed, refunds, casWon, casLost, rejected, created,
                   ncalls, maxcalls>>

\* notificationRepository.CASStatus is issued with the entity n ...
CASStatus(p) ==
    /\ Begin(p)
    /\ \E id \in DOMAIN rows, s \in SendStatuses, v \in 1 .. MaxVersion :
        Goto(p, "cas_dao",
             [NoCall EXCEPT !.op = "CASStatus",
                            !.n = [Kept(StoredEntity(id)) EXCEPT !.status = s, !.version = v]])
    /\ UNCHANGED <<quota, rows, now, seed, refunds, casWon, casLost, rejected, created>>

\* fault: WHERE id = ?
casMatchesID(rs, n) == {i \in DOMAIN rs : i = n.id}

\* WHERE id = ? AND version = ?
casMatches(rs, n) == {i \in DOMAIN rs : i = n.id /\ rs[i].version = n.version}

\* ... and notificationDAO.CASStatus runs its UPDATE
daoCASStatus(p) ==
    LET n == loc[p].n
        hit == casMatches(rows, n)
    IN  /\ pc[p] = "cas_dao"
        /\ rows' = UpdateRows(rows, hit, n.status, Unix(now), "CASStatus")
        /\ IF hit = {}
              THEN /\ Return(p, Result("ErrNotificationVersionMismatch", 0))
                   /\ casLost' = [casLost EXCEPT ![<<n.id, n.version>>] = @ + 1]
                   /\ casWon' = casWon
              ELSE /\ Return(p, Ok)
                   /\ casWon' = [casWon EXCEPT ![<<n.id, n.version>>] = @ + 1]
                   /\ casLost' = casLost
        /\ UNCHANGED <<quota, now, seed, refunds, rejected, created, ncalls, maxcalls>>

\* notificationDAO.UpdateStatus: WHERE id = ?
daoUpdateStatus(rs, n) == UpdateRows(rs, {n.id}, n.status, Unix(now), "UpdateStatus")

UpdateStatus(p) ==
    /\ Begin(p)
    /\ \E id \in DOMAIN rows, s \in SendStatuses :
        rows' = daoUpdateStatus(rows, [StoredEntity(id) EXCEPT !.status = s])
    /\ Return(p, Ok)
    /\ UNCHANGED <<quota, now, seed, refunds, casWon, casLost, rejected, created>>

\* the Status a caller of MarkSuccess / MarkFailed may carry in the entity: the
\* one the operation is named after, or the one it read (the entity untouched)
MarkStatuses(st, id) == {st, rows[id].status}

\* the entities a caller hands to MarkSuccess / MarkFailed: a stored
\* notification, with Status st or the stored one, or a notification whose
\* ID matches no row
MarkEntities(st) ==
    UNION {{[StoredEntity(id) EXCEPT !.status = s] : s \in MarkStatuses(st, id)} :
            id \in DOMAIN rows}
    \cup {Entity(id, b, "-", c, st, 0) : id \in IDs \ DOMAIN rows, b \in BizIDs, c \in Channels}

\* notificationDAO.MarkSuccess: one transaction
daoMarkSuccess(rs, n) ==
    UpdateCallbackLogs(UpdateRows(rs, {n.id}, n.status, UnixMilli(now), "MarkSuccess"), {n.id})

\* notificationRepository.MarkSuccess of entity n
repoMarkSuccess(p, n) ==
    /\ Begin(p)
    /\ rows' = daoMarkSuccess(rows, n)
    /\ Return(p, Ok)
    /\ UNCHANGED <<quota, now, seed, refunds, casWon, casLost, rejected, created>>

MarkSuccess(p) == \E n \in MarkEntities(SendStatusSucceeded) : repoMarkSuccess(p, n)

\* notificationDAO.MarkFailed
daoMarkFailed(rs, n) == UpdateRows(rs, {n.id}, n.status, UnixMilli(now), "MarkFailed")

\* notificationRepository.MarkFailed, first round trip
MarkFailed(p) ==
    /\ Begin(p)
    /\ \E n \in MarkEntities(SendStatusFailed) :
            /\ rows' = daoMarkFailed(rows, n)
            /\ Goto(p, "mark_refund", [NoCall EXCEPT !.op = "MarkFailed", !.n = Kept(n)])
    /\ UNCHANGED <<quota, now, seed, refunds, casWon, casLost, rejected, created>>

\* history: one more refund for every entity of the list
Refunded(ns) ==
    [i \in IDs |-> refunds[i] + Cardinality({j \in DOMAIN ns : ns[j].id = i})]

\* notificationRepository.MarkFailed, second round trip: quotaCache.Incr, whose
\* error (of a canceled context, here) is what MarkFailed returns
MarkFailedRefund(p) ==
    /\ pc[p] = "mark_refund"
    /\ IF loc[p].ctx = "canceled"
          THEN /\ UNCHANGED <<quota, refunds>>
               /\ Return(p, Result("Canceled", 0))
          ELSE /\ quota' = Incr(quota, loc[p].n.bizID, loc[p].n.channel, defaultQuotaNumber)
               /\ refunds' = Refunded(<<loc[p].n>>)
               /\ Return(p, Ok)
    /\ UNCHANGED <<rows, now, seed, casWon, casLost, rejected, created, ncalls, maxcalls>>

IDsOf(ns) == {ns[i].id : i \in DOMAIN ns}

\* fault: a batch update that leaves the callback logs alone
batchUpdateNoLogs(rs, succeeded, failed) ==
    LET s1 == IF succeeded = <<>> THEN rs
              ELSE UpdateRows(rs, IDsOf(succeeded), SendStatusSucceeded, Unix(now), "BatchUpdate")
    IN  IF failed = <<>> THEN s1
        ELSE UpdateRows(s1, IDsOf(failed), SendStatusFailed, Unix(now), "BatchUpdate")

\* notificationDAO.BatchUpdateStatusSucceededOrFailed: one transaction, the
\* succeeded IDs (with their callback logs) first, the failed IDs second
daoBatchUpdateStatus(rs, succeeded, failed) ==
    LET s1 == IF succeeded = <<>> THEN rs
              ELSE UpdateCallbackLogs(
                       UpdateRows(rs, IDsOf(succeeded), SendStatusSucceeded, Unix(now), "BatchUpdate"),
                       IDsOf(succeeded))
    IN  IF failed = <<>> THEN s1
        ELSE UpdateRows(s1, IDsOf(failed), SendStatusFailed, Unix(now), "BatchUpdate")

StoredEntities == {Kept(StoredEntity(id)) : id \in DOMAIN rows}

\* notificationRepository.BatchUpdateStatusSucceededOrFailed, first round trip
BatchUpdateStatusSucceededOrFailed(p) ==
    /\ Begin(p)
    /\ \E succeeded, failed \in SeqsUpTo(StoredEntities, MaxBatch) :
        /\ rows' = daoBatchUpdateStatus(rows, succeeded, failed)
        /\ Goto(p, "bupdate_refund",
                [NoCall EXCEPT !.op = "BatchUpdate", !.batch = succeeded, !.failed = failed])
    /\ UNCHANGED <<quota, now, seed, refunds, casWon, casLost, rejected, created>>

\* the transaction of the DAO fails and rolls back: the error is returned
\* before any refund
daoBatchUpdateFails(p) ==
    /\ Begin(p)
    /\ rows # <<>>
    /\ Return(p, Result("ErrBatchUpdate", 0))
    /\ UNCHANGED <<quota, rows, now, seed, refunds, casWon, casLost, rejected, created>>

\* second round trip: quotaCache.MutiIncr for the failed list (no script runs
\* for an empty list); its error (of a canceled context, here) is logged
BatchUpdateRefund(p) ==
    /\ pc[p] = "bupdate_refund"
    /\ IF loc[p].ctx = "canceled" /\ loc[p].failed # <<>>
          THEN UNCHANGED <<quota, refunds>>
          ELSE /\ quota' = MutiIncr(quota, getItems(loc[p].failed))
               /\ refunds' = Refunded(loc[p].failed)
    /\ Return(p, Ok)
    /\ UNCHANGED <<rows, now, seed, casWon, casLost, rejected, created, ncalls, maxcalls>>

\* notificationDAO.MarkTimeoutSendingAsFailed: WHERE status = 'SENDING' AND utime <= ddl
timedOut(rs) ==
    {i \in DOMAIN rs :
        rs[i].status = SendStatusSending /\ rs[i].utime <= UnixMilli(now) - MinuteMilli}

\* ... LIMIT batchSize: any batchSize of them, or all when there are fewer
Limit(S, n) ==
    {T \in SUBSET S : Cardinality(T) = IF Cardinality(S) < n THEN Cardinality(S) ELSE n}

\* MarkTimeoutSendingAsFailed: the SELECT of its transaction (a snapshot read,
\* which locks nothing); none found commits at once with 0 rows affected
MarkTimeoutSendingAsFailed(p) ==
    /\ Begin(p)
    /\ \E batchSize \in 1 .. MaxBatch :
        \E idsToUpdate \in Limit(timedOut(rows), batchSize) :
            IF idsToUpdate = {}
                THEN Return(p, Ok)
                ELSE Goto(p, "sweep_update",
                          [NoCall EXCEPT !.op = "MarkTimeoutSendingAsFailed",
                                         !.ids = idsToUpdate, !.start = now])
    /\ UNCHANGED <<quota, rows, now, seed, refunds, casWon, casLost, rejected, created>>

\* MarkTimeoutSendingAsFailed: the UPDATE ... WHERE id IN idsToUpdate, utime the
\* instant the call read when it started
SweepUpdate(p) ==
    /\ pc[p] = "sweep_update"
    /\ rows' = UpdateRows(rows, loc[p].ids, SendStatusFailed, UnixMilli(loc[p].start), "Sweep")
    /\ Return(p, Result("nil", Cardinality(loc[p].ids)))
    /\ UNCHANGED <<quota, now, seed, refunds, casWon, casLost, rejected, created, ncalls, maxcalls>>

\* NotificationServer.getBizIDFromContext
getBizIDFromContext == 1

\* notificationDAO.GetByKey
GetByKey(rs, b, k) == {i \in DOMAIN rs : rs[i].bizID = b /\ rs[i].key = k}

\* fault: TxCommit / TxCancel without the comparison with PREPARE
TxLookupUnchecked(p, op, k) ==
    LET found == GetByKey(rows, getBizIDFromContext, k)
    IN  /\ Begin(p)
        /\ IF found = {}
              THEN Return(p, Result("NotFound", 0))
              ELSE \E id \in found :
                    Goto(p, "tx_update", [NoCall EXCEPT !.op = op, !.n = Kept(StoredEntity(id))])
        /\ UNCHANGED <<quota, rows, now, seed, refunds, casWon, casLost, rejected, created>>

\* NotificationServer.TxCommit / TxCancel up to the status check: GetByKey,
\* then the comparison with PREPARE
TxLookup(p, op, k) ==
    LET found == GetByKey(rows, getBizIDFromContext, k)
    IN  /\ Begin(p)
        /\ IF found = {}
              THEN Return(p, Result("NotFound", 0))
              ELSE \E id \in found :
                    IF rows[id].status # SendStatusPrepare
                        THEN Return(p, Result("FailedPrecondition", 0))
                        ELSE Goto(p, "tx_update",
                                  [NoCall EXCEPT
                                      !.op = op,
                                      !.n = Kept(StoredEntity(id))])
        /\ UNCHANGED <<quota, rows, now, seed, refunds, casWon, casLost, rejected, created>>

TxCommit(p) == \E k \in Keys : TxLookup(p, "TxCommit", k)
TxCancel(p) == \E k \in Keys : TxLookup(p, "TxCancel", k)

\* the status TxCommit / TxCancel writes
TxTarget(op) == IF op = "TxCommit" THEN SendStatusPending ELSE SendStatusCanceled

\* TxCommit / TxCancel: repo.UpdateStatus with the new status
TxUpdate(p) ==
    /\ pc[p] = "tx_update"
    /\ rows' = daoUpdateStatus(rows, [loc[p].n EXCEPT !.status = TxTarget(loc[p].op)])
    /\ Return(p, Ok)
    /\ UNCHANGED <<quota, now, seed, refunds, casWon, casLost, rejected, created, ncalls, maxcalls>>

Tick ==
    /\ now < StartTick + MaxTick
    /\ now' = now + 1
    /\ UNCHANGED <<quota, rows, pc, loc, ret, seed, refunds, casWon, casLost, rejected,
                   created, ncalls, maxcalls, infra>>

\* ------------------------------------------- the quota cache, called alone
\* the lists of IncrItems a caller hands over: at most MaxBatch items on
\* distinct keys
ItemLists ==
    {l \in SeqsUpTo([k : QuotaKeys, val : 1 .. MaxQuota], MaxBatch) :
        \A i, j \in DOMAIN l : l[i].k = l[j].k => i = j}

\* a caller issues one command of the quota cache: Incr and Decr with one
\* (bizID, channel, quota), MutiIncr and MutiDecr with a list of items
cacheCall(p) ==
    /\ Begin(p)
    /\ \E op \in {"Incr", "Decr", "MutiIncr", "MutiDecr"}, l \in ItemLists :
        /\ op \in {"Incr", "Decr"} => Len(l) = 1
        /\ Goto(p, "cache_" \o op, [NoCall EXCEPT !.op = op, !.batch = l])
    /\ UNCHANGED <<quota, rows, now, seed, refunds, casWon, casLost, rejected, created>>

\* quotaCache.Incr: the script runs as one step of the redis server
cacheIncr(p) ==
    /\ pc[p] = "cache_Incr"
    /\ quota' = Incr(quota, loc[p].batch[1].k[1], loc[p].batch[1].k[2], loc[p].batch[1].val)
    /\ Return(p, Result("nil", <<>>))
    /\ UNCHANGED <<rows, now, seed, refunds, casWon, casLost, rejected, created,
                   ncalls, maxcalls>>

\* quotaCache.Decr
cacheDecr(p) ==
    LET d == Decr(quota, loc[p].batch[1].k[1], loc[p].batch[1].k[2], loc[p].batch[1].val)
    IN  /\ pc[p] = "cache_Decr"
        /\ quota' = d.q
        /\ Return(p, Result(d.err, <<>>))
        /\ UNCHANGED <<rows, now, seed, refunds, casWon, casLost, rejected, created,
                       ncalls, maxcalls>>

\* quotaCache.MutiIncr: no script runs for an empty list
cacheMutiIncr(p) ==
    /\ pc[p] = "cache_MutiIncr"
    /\ quota' = IF loc[p].batch = <<>> THEN quota
                ELSE MutiIncr(quota, getKeysAndQuotas(loc[p].batch))
    /\ Return(p, Result("nil", <<>>))
    /\ UNCHANGED <<rows, now, seed, refunds, casWon, casLost, rejected, created,
                   ncalls, maxcalls>>

\* quotaCache.MutiDecr: the error carries the key the script returned
cacheMutiDecr(p) ==
    LET d == MutiDecr(quota, getKeysAndQuotas(loc[p].batch))
    IN  /\ pc[p] = "cache_MutiDecr"
        /\ quota' = d.q
        /\ Return(p, Result(d.err, batchDecrQuotaKey(quota, loc[p].batch)))
        /\ UNCHANGED <<rows, now, seed, refunds, casWon, casLost, rejected, created,
                       ncalls, maxcalls>>

\* ------------------------------------------------------- the send handlers
\* the instants (milliseconds), delays (seconds) and window ends
\* (milliseconds) a request names: past, the first instant modelled, shortly
\* after it, and far ahead
Instants ==
    {UnixMilli(StartTick) - 1000, UnixMilli(StartTick), UnixMilli(StartTick) + 1000,
     UnixMilli(StartTick) + 3600000}
Delays == {0 - 1, 0, 600}
WindowEnds == {0, UnixMilli(StartTick), UnixMilli(StartTick) + 1000}
Requests ==
    {SendStrategy(k, FALSE, 0, 0, 0, 0) :
        k \in {"none", "Delayed", "Scheduled", "TimeWindow", "Deadline"}}
    \cup {SendStrategy("Immediate", TRUE, 0, 0, 0, 0)}
    \cup {SendStrategy("Delayed", TRUE, d, 0, 0, 0) : d \in Delays}
    \cup {SendStrategy(k, TRUE, 0, t, 0, 0) : k \in {"Scheduled", "Deadline"}, t \in Instants}
    \cup {SendStrategy("TimeWindow", TRUE, 0, 0, w[1], w[2]) : w \in WindowEnds \X WindowEnds}

\* a request reaches the handler rpc and is converted
\* (convertToDomainNotification): its strategy, and a notification whose
\* other fields pass Notification.Validate
Receive(p, rpc) ==
    /\ Begin(p)
    /\ \E k \in Keys, r \in Requests :
            Goto(p, "srv_validate",
                 [NoCall EXCEPT !.op = rpc, !.req = r, !.cfg = getDomainSendStrategyConfig(r),
                                !.n = Entity(0, getBizIDFromContext, k, "SMS", "-", 0)])
    /\ UNCHANGED <<quota, rows, now, seed, refunds, casWon, casLost, rejected, created>>

SendNotification(p) == Receive(p, "SendNotification")

SendNotificationAsync(p) == Receive(p, "SendNotificationAsync")

\* notification.Validate(): an error ends the handler
srvValidate(p) ==
    /\ pc[p] = "srv_validate"
    /\ LET err == Validate(loc[p].cfg, UnixMilli(now))
       IN  IF err # "nil"
              THEN Return(p, Result(err, 0))
              ELSE Goto(p, IF loc[p].op = "SendNotificationAsync" THEN "srv_replace"
                                                                 ELSE "srv_settime",
                        [loc[p] EXCEPT !.req = NoCall.req])
    /\ UNCHANGED <<quota, rows, now, seed, refunds, casWon, casLost, rejected, created,
                   ncalls, maxcalls>>

\* SendNotificationAsync: notification.ReplaceAsyncImmediate()
srvReplaceAsyncImmediate(p) ==
    /\ pc[p] = "srv_replace"
    /\ Goto(p, "srv_settime",
            [loc[p] EXCEPT !.cfg = ReplaceAsyncImmediate(loc[p].cfg, UnixMilli(now))])
    /\ UNCHANGED <<quota, rows, now, seed, refunds, casWon, casLost, rejected, created,
                   ncalls, maxcalls>>

\* notification.SetSendTime(), then Status = PENDING
SetSendTime(p) ==
    /\ pc[p] = "srv_settime"
    /\ LET w == SendTimeWindow(loc[p].cfg, UnixMilli(now))
       IN  Goto(p, "srv_create",
                [loc[p] EXCEPT !.n.stime = w[1], !.n.etime = w[2],
                               !.n.status = SendStatusPending])
    /\ UNCHANGED <<quota, rows, now, seed, refunds, casWon, casLost, rejected, created,
                   ncalls, maxcalls>>

\* the repository method of the handler: s.repo.CreateWithCallbackLog of
\* SendNotification, s.repo.Create of SendNotificationAsync
srvCreate(p) ==
    /\ pc[p] = "srv_create"
    /\ repoCreate(p, [loc[p] EXCEPT !.rpc = loc[p].op,
                                    !.op = IF loc[p].op = "SendNotification"
                                              THEN "CreateWithCallbackLog" ELSE "Create"])
    /\ UNCHANGED <<ncalls, maxcalls>>

\* SendNotification, immediate strategy: the notification it created is marked
\* SUCCEEDED by s.repo.MarkSuccess (whose error is dropped)
srvMarkSuccess(p) ==
    /\ pc[p] = "srv_mark"
    /\ rows' = daoMarkSuccess(rows, [loc[p].n EXCEPT !.status = SendStatusSucceeded])
    /\ Return(p, Response(<<SendNotificationResponse(loc[p].n.id, SendStatusSucceeded)>>))
    /\ UNCHANGED <<quota, now, seed, refunds, casWon, casLost, rejected, created,
                   ncalls, maxcalls>>

\* SendNotification, immediate strategy: s.repo.MarkSuccess fails (the store
\* fails or the context is canceled); the handler drops the error and answers
\* as it does when MarkSuccess has succeeded
srvMarkSuccessFails(p) ==
    /\ pc[p] = "srv_mark"
    /\ Return(p, Response(<<SendNotificationResponse(loc[p].n.id, SendStatusSucceeded)>>))
    /\ UNCHANGED <<quota, rows, now, seed, refunds, casWon, casLost, rejected, created,
                   ncalls, maxcalls>>

\* ------------------------------------------------------------ application
\* App.Run after Register and Serve have started: it waits for a signal or
\* for the failure of Serve (pc), calls made to the registry and the server
\* so far (calls), what Run returned (err), whether a signal came (quit)
NewApp == [pc |-> "serving", calls |-> <<>>, err |-> "nil", quit |-> FALSE]

\* the outcomes of a call of the registry
RegistryErrors == {"nil", "ErrRegistry"}

\* grpc.Server: new calls are taken until GracefulStop is called
Accepting == app.pc \notin {"draining", "done"}

\* fault: a shutdown that gives up at the first failing step
stopOnError(err, next) == IF err = "nil" THEN next ELSE "done"

\* App.shutdown: the error of Deregister or Close is logged and the next step
\* follows
afterRegistryCall(err, next) == next

\* App.Run: the signal arrives and shutdown starts
appQuit ==
    /\ app.pc = "serving"
    /\ app' = [app EXCEPT !.pc = "deregister", !.quit = TRUE]
    /\ UNCHANGED <<engine, lockKey, dm, etcd, watchChan, sd>>

\* App.Run: Serve fails and Run returns its error, without shutdown
appServeFails ==
    /\ app.pc = "serving"
    /\ app' = [app EXCEPT !.pc = "done", !.err = "ErrServe"]
    /\ UNCHANGED <<engine, lockKey, dm, etcd, watchChan, sd>>

\* App.shutdown: Registry.Deregister
appDeregister ==
    /\ app.pc = "deregister"
    /\ \E e \in RegistryErrors :
            app' = [app EXCEPT !.pc = afterRegistryCall(e, "close"),
                               !.calls = Append(@, [call |-> "Deregister", err |-> e])]
    /\ UNCHANGED <<engine, lockKey, dm, etcd, watchChan, sd>>

\* App.shutdown: Registry.Close
appClose ==
    /\ app.pc = "close"
    /\ \E e \in RegistryErrors :
            app' = [app EXCEPT !.pc = afterRegistryCall(e, "stop"),
                               !.calls = Append(@, [call |-> "Close", err |-> e])]
    /\ UNCHANGED <<engine, lockKey, dm, etcd, watchChan, sd>>

\* App.shutdown: GrpcServer.GracefulStop is called, no new call is taken
appGracefulStop ==
    /\ app.pc = "stop"
    /\ app' = [app EXCEPT !.pc = "draining",
                          !.calls = Append(@, [call |-> "GracefulStop", err |-> "nil"])]
    /\ UNCHANGED <<engine, lockKey, dm, etcd, watchChan, sd>>

\* App.shutdown: GracefulStop returns when the pending calls have ended, and
\* shutdown returns nil
appStopped ==
    /\ app.pc = "draining"
    /\ \A p \in Procs : pc[p] = "idle"
    /\ app' = [app EXCEPT !.pc = "done", !.err = "nil"]
    /\ UNCHANGED <<engine, lockKey, dm, etcd, watchChan, sd>>

\* the strategies the notifications of a batch request carry: none,
\* IMMEDIATE, DELAYED, and SCHEDULED at or before the first instant modelled
BatchRequests ==
    {r \in Requests :
        \/ r.kind \in {"none", "Immediate", "Delayed"}
        \/ r.kind = "Scheduled" /\ r.time <= UnixMilli(StartTick)}

\* BatchSendNotifications, the loop over the request: the notifications that
\* pass Validate, each with its send time set and Status PENDING, and the
\* strategy of each (T is what time.Now() returns)
RECURSIVE validNotifications(_, _)
validNotifications(items, T) ==
    IF items = <<>> THEN <<>>
    ELSE LET cfg == getDomainSendStrategyConfig(Head(items).req)
             w == SendTimeWindow(cfg, T)
             rest == validNotifications(Tail(items), T)
         IN  IF Validate(cfg, T) # "nil" THEN rest
             ELSE <<[n |-> [Entity(0, getBizIDFromContext, Head(items).key, "SMS",
                                   SendStatusPending, 0)
                               EXCEPT !.stime = w[1], !.etime = w[2]],
                     cfg |-> cfg]>> \o rest

\* NotificationServer.BatchSendNotifications up to the call of the
\* repository: an empty request is refused, the notifications that fail
\* Validate are answered with an error each and left out, the others go to
\* s.repo.BatchCreateWithCallbackLog
BatchSendNotifications(p) ==
    /\ Begin(p)
    /\ \E items \in SeqsUpTo([key : Keys, req : BatchRequests], MaxBatch) :
        LET vs == validNotifications(items, UnixMilli(now))
        IN  IF items = <<>>
                THEN Return(p, Result("InvalidArgument", 0))
            ELSE IF vs = <<>>
                THEN Return(p, Response(<<>>))
            ELSE Goto(p, "batch_decr",
                      [NoCall EXCEPT !.op = "BatchCreateWithCallbackLog",
                                     !.rpc = "BatchSendNotifications",
                                     !.batch = [i \in DOMAIN vs |-> vs[i].n],
                                     !.cfgs = [i \in DOMAIN vs |-> vs[i].cfg]])
    /\ UNCHANGED <<quota, rows, now, seed, refunds, casWon, casLost, rejected, created>>

\* notificationRepository.toDomain: the notification the repository returns
\* is built from the stored row, which holds no strategy; its
\* SendStrategyConfig is the zero value
toDomain(n, cfg) == [n |-> n, cfg |-> NoStrategy]

\* BatchSendNotifications after the repository has returned the created
\* notifications: those that are immediate are answered SUCCEEDED and handed
\* to s.repo.BatchUpdateStatusSucceededOrFailed (whose error is dropped), the
\* others are answered PENDING
srvBatchRespond(p) ==
    LET returned == [i \in DOMAIN loc[p].batch |-> toDomain(loc[p].batch[i], loc[p].cfgs[i])]
        immediate == SelectSeq(returned, LAMBDA x : IsImmediate(x.cfg))
        succeeded == [i \in DOMAIN immediate |->
                        [immediate[i].n EXCEPT !.status = SendStatusSucceeded]]
    IN  /\ pc[p] = "srv_batch"
        /\ rows' = IF succeeded = <<>> THEN rows
                    ELSE daoBatchUpdateStatus(rows, succeeded, <<>>)
        /\ Return(p, Response([i \in DOMAIN returned |->
                        SendNotificationResponse(
                            returned[i].n.id,
                            IF IsImmediate(returned[i].cfg) THEN SendStatusSucceeded
                                                            ELSE SendStatusPending)]))
        /\ UNCHANGED <<quota, now, seed, refunds, casWon, casLost, rejected, created,
                       ncalls, maxcalls>>

\* ------------------------------------------------------ distributed lock
\* the DistributeMutex instances, all on the same key; the value of each is a
\* fresh uuid, here its name
Mutexes == {"m1", "m2"}

\* NewLockerOption: Expiration is a time.Duration, here in milliseconds;
\* RetryCount is not negative and RetryDelay is positive
NewLockerOption(expiration, retry) == [Expiration |-> expiration, RetryCount |-> retry]
LockerOptions ==
    {NewLockerOption(e, r) : e \in {500} \cup {1000 * k : k \in 1 .. MaxExpiration},
                             r \in 0 .. MaxRetry}

\* NewDistributeMutex, with the local sync.Mutex (lock) and the history of
\* the instance: the seconds left of the lock it was granted and has not
\* released (lease), the attempts of its last Lock, and what became of its
\* last grant (held)
NewDistributeMutex(m, opts) ==
    [value |-> m, options |-> opts, lock |-> FALSE, lease |-> 0, attempts |-> 0,
     held |-> "never"]

\* the key in redis: no value when it is absent, else the seconds it lives
NoKey == [value |-> "", ttl |-> 0]

\* int(dm.options.Expiration.Seconds())
Seconds(ms) == ms \div 1000

setAlways(stored, value, ex) == [key |-> [value |-> value, ttl |-> ex], result |-> 0]
\* luaTryLock: SET key value EX ex NX, 0 when it was set and -1 when not
luaTryLock(stored, value, ex) ==
    IF stored.value = "" THEN [key |-> [value |-> value, ttl |-> ex], result |-> 0]
    ELSE [key |-> stored, result |-> 0 - 1]

delAlways(stored, value) == [key |-> NoKey, result |-> IF stored.value = "" THEN 0 ELSE 1]
\* luaGetDel: DEL key when GET key is value, else -1
luaGetDel(stored, value) ==
    IF stored.value = value THEN [key |-> NoKey, result |-> 1]
    ELSE [key |-> stored, result |-> 0 - 1]

\* DistributeMutex.Lock is called on an instance whose sync.Mutex is free
Lock(p) ==
    /\ Begin(p)
    /\ \E m \in Mutexes :
        /\ ~dm[m].lock
        /\ dm' = [dm EXCEPT ![m].lock = TRUE, ![m].attempts = 0]
        /\ Jump(p, "lock_try", [NoCall EXCEPT !.op = "Lock", !.dm = m,
                                              !.retryCount = dm[m].options.RetryCount])
    /\ UNCHANGED <<quota, rows, now, seed, refunds, casWon, casLost, rejected, created,
                   app, lockKey, etcd, watchChan, sd>>

\* one turn of the loop of Lock: tryLock, whose script redis refuses when the
\* expiration is less than a second; then the return or the next retry
lockTry(p) ==
    LET m == loc[p].dm
        ex == Seconds(dm[m].options.Expiration)
        r == luaTryLock(lockKey, dm[m].value, ex)
        tried == [dm EXCEPT ![m].attempts = @ + 1]
    IN  /\ pc[p] = "lock_try"
        /\ IF ex <= 0
              THEN /\ lockKey' = lockKey
                   /\ dm' = [tried EXCEPT ![m].lock = FALSE]
                   /\ Finish(p, Result("ErrRedis", 0))
           ELSE IF r.result # 0 - 1
              THEN /\ lockKey' = r.key
                   /\ dm' = [tried EXCEPT ![m].lock = FALSE, ![m].lease = ex,
                                          ![m].held = "granted"]
                   /\ Finish(p, Ok)
           ELSE IF loc[p].retryCount <= 0
              THEN /\ lockKey' = lockKey
                   /\ dm' = [tried EXCEPT ![m].lock = FALSE]
                   /\ Finish(p, Result("ErrLockFailed", 0))
           ELSE /\ lockKey' = lockKey
                /\ dm' = tried
                /\ Jump(p, "lock_try", [loc[p] EXCEPT !.retryCount = @ - 1])
        /\ UNCHANGED <<quota, rows, now, seed, refunds, casWon, casLost, rejected, created,
                       ncalls, maxcalls, app, etcd, watchChan, sd>>

\* DistributeMutex.Unlock is called on an instance
Unlock(p) ==
    /\ Begin(p)
    /\ \E m \in Mutexes : Jump(p, "unlock_eval", [NoCall EXCEPT !.op = "Unlock", !.dm = m])
    /\ UNCHANGED <<quota, rows, now, seed, refunds, casWon, casLost, rejected, created,
                   infra>>

\* Unlock: the script runs in redis and the call returns
unlockEval(p) ==
    LET m == loc[p].dm
        r == luaGetDel(lockKey, dm[m].value)
    IN  /\ pc[p] = "unlock_eval"
        /\ lockKey' = r.key
        /\ IF r.result = 0 - 1
              THEN /\ dm' = [dm EXCEPT ![m].held = IF @ = "granted" THEN "late" ELSE @]
                   /\ Finish(p, Result("ErrUnLockFailed", 0))
              ELSE /\ dm' = [dm EXCEPT ![m].lease = 0, ![m].held = "released"]
                   /\ Finish(p, Ok)
        /\ UNCHANGED <<quota, rows, now, seed, refunds, casWon, casLost, rejected, created,
                       ncalls, maxcalls, app, etcd, watchChan, sd>>

\* a second passes in redis: the key lives a second less and is removed when
\* its time is up
redisExpire ==
    /\ lockKey.value # "" \/ \E m \in Mutexes : dm[m].lease > 0
    /\ lockKey' = IF lockKey.ttl <= 1 THEN NoKey ELSE [lockKey EXCEPT !.ttl = @ - 1]
    /\ dm' = [m \in Mutexes |-> [dm[m] EXCEPT !.lease = IF @ > 0 THEN @ - 1 ELSE 0]]
    /\ UNCHANGED <<engine, app, etcd, watchChan, sd>>

\* ---------------------------------------------------- service discovery
\* the service names registered under the prefix /services/ and the addresses
\* they are registered with
Services == {"s1", "s2"}
Addrs == {"a1", "a2"}

\* the keys under the prefix in etcd: the value of each ("" when the key is
\* absent) and the revision of the store
NoServices == [kv |-> [s \in Services |-> ""], rev |-> 0]

\* NewServiceDiscovery: an empty cache; pc is where StartWatch stands
NewServiceDiscovery == [pc |-> "new", serviceCache |-> <<>>]

\* GetAllServices: the address of every key under the prefix, by service name
GetAllServices(kv) == [s \in {t \in Services : kv[t] # ""} |-> <<kv[s]>>]

\* the addresses without the first one equal to addr
RECURSIVE removeFirst(_, _)
removeFirst(addrs, addr) ==
    IF addrs = <<>> THEN <<>>
    ELSE IF Head(addrs) = addr THEN Tail(addrs)
    ELSE <<Head(addrs)>> \o removeFirst(Tail(addrs), addr)

\* the body of the watch loop for one event
applyEvent(cache, ev) ==
    LET addrs == IF ev.key \in DOMAIN cache THEN cache[ev.key] ELSE <<>>
        others == [s \in DOMAIN cache \ {ev.key} |-> cache[s]]
    IN  IF ev.type = "PUT"
            THEN (ev.key :> Append(addrs, ev.value)) @@ others
        ELSE IF removeFirst(addrs, ev.value) = <<>>
            THEN others
        ELSE (ev.key :> removeFirst(addrs, ev.value)) @@ others

\* the events of a write reach the channel of an established watch
notify(ev) == IF sd.pc = "watching" THEN Append(watchChan, ev) ELSE watchChan

\* a service registers or re-registers: a put on its key
etcdPut ==
    /\ etcd.rev < MaxRevision
    /\ \E s \in Services, a \in Addrs :
        /\ etcd' = [etcd EXCEPT !.kv[s] = a, !.rev = @ + 1]
        /\ watchChan' = notify([type |-> "PUT", key |-> s, value |-> a])
    /\ UNCHANGED <<engine, app, lockKey, dm, sd>>

\* a service deregisters: its key is deleted; the event of a delete carries
\* the key and no value
etcdDelete ==
    /\ etcd.rev < MaxRevision
    /\ \E s \in Services :
        /\ etcd.kv[s] # ""
        /\ etcd' = [etcd EXCEPT !.kv[s] = "", !.rev = @ + 1]
        /\ watchChan' = notify([type |-> "DELETE", key |-> s, value |-> ""])
    /\ UNCHANGED <<engine, app, lockKey, dm, sd>>

\* StartWatch fills the cache from GetAllServices and starts the goroutine
StartWatch ==
    /\ sd.pc = "new"
    /\ sd' = [pc |-> "cached", serviceCache |-> GetAllServices(etcd.kv)]
    /\ UNCHANGED <<engine, app, lockKey, dm, etcd, watchChan>>

\* the goroutine establishes the watch on the prefix
watchOpen ==
    /\ sd.pc = "cached"
    /\ sd' = [sd EXCEPT !.pc = "watching"]
    /\ UNCHANGED <<engine, app, lockKey, dm, etcd, watchChan>>

\* the goroutine receives an event and updates the cache
watchEvent ==
    /\ sd.pc = "watching"
    /\ watchChan # <<>>
    /\ sd' = [sd EXCEPT !.serviceCache = applyEvent(@, Head(watchChan))]
    /\ watchChan' = Tail(watchChan)
    /\ UNCHANGED <<engine, app, lockKey, dm, etcd>>

\* the state after construction: empty tables, the counters seeded by
\* CreateOrUpdate with one of seeds, calls calls to come
InitCore(seeds, calls) ==
    /\ quota \in seeds
    /\ seed = quota
    /\ rows = <<>>
    /\ now = StartTick
    /\ pc = [p \in Procs |-> "idle"]
    /\ loc = [p \in Procs |-> NoCall]
    /\ ret = Ok
    /\ refunds = [i \in IDs |-> 0]
    /\ casWon = [x \in IDs \X (1 .. MaxVersion) |-> 0]
    /\ casLost = [x \in IDs \X (1 .. MaxVersion) |-> 0]
    /\ rejected = <<>>
    /\ created = [bk \in BizIDs \X Keys |->
                    [nil |-> 0, ErrNotificationDuplicate |-> 0, ErrQuotaLessThenZero |-> 0]]
    /\ ncalls = 0
    /\ maxcalls = calls

\* the application serving, no lock taken, no service registered
InitWith(seeds, calls) ==
    /\ InitCore(seeds, calls)
    /\ app = NewApp
    /\ lockKey = NoKey
    /\ dm = [m \in Mutexes |-> NewDistributeMutex(m, NewLockerOption(1000, 0))]
    /\ etcd = NoServices
    /\ watchChan = <<>>
    /\ sd = NewServiceDiscovery

AnySeed == [QuotaKeys -> 0 .. MaxQuota]
FullSeed == {[k \in QuotaKeys |-> MaxQuota]}

SingleCreates ==
    \E p \in Procs :
        \/ Create(p)
        \/ CreateWithCallbackLog(p)
        \/ TxPrepare(p)
        \/ daoCreate(p)
        \/ CreateRefund(p)

BatchCreates ==
    \E p \in Procs :
        \/ BatchCreate(p)
        \/ BatchCreateWithCallbackLog(p)
        \/ batchCreateDecr(p)
        \/ daoBatchCreate(p)
        \/ BatchCreateRefund(p)

CasCalls == \E p \in Procs : CASStatus(p) \/ daoCASStatus(p)

RowCalls ==
    \E p \in Procs :
        \/ UpdateStatus(p)
        \/ MarkSuccess(p)
        \/ MarkFailed(p)
        \/ MarkFailedRefund(p)

BatchUpdates ==
    \E p \in Procs :
        \/ BatchUpdateStatusSucceededOrFailed(p)
        \/ daoBatchUpdateFails(p)
        \/ BatchUpdateRefund(p)

Sweeps == \E p \in Procs : MarkTimeoutSendingAsFailed(p) \/ SweepUpdate(p)

TxCalls == \E p \in Procs : TxCommit(p) \/ TxCancel(p) \/ TxUpdate(p)

\* failures of the store and cancellations of the caller's context
SingleFaults == \E p \in Procs : Cancel(p) \/ daoCreateFails(p)

BatchFaults == \E p \in Procs : daoBatchCreateFails(p)

\* the single creates alone, any seed
InitSingle == InitWith(AnySeed, MaxCreateCalls)
NextSingle == SingleCreates
SpecSingle == InitSingle /\ [][NextSingle]_vars

\* the single creates, with failures
InitSingleFault == InitWith(AnySeed, MaxCreateCalls)
NextSingleFault == SingleCreates \/ SingleFaults
SpecSingleFault == InitSingleFault /\ [][NextSingleFault]_vars

\* the creating operations, with failures
InitFault == InitWith(FullSeed, MaxCreateCalls)
NextFault == SingleCreates \/ BatchCreates \/ SingleFaults \/ BatchFaults
SpecFault == InitFault /\ [][NextFault]_vars

\* the quota cache alone: every counter seeded by CreateOrUpdate or absent
QuotaSeeds ==
    UNION {[ks -> 0 .. MaxQuota] : ks \in SUBSET QuotaKeys}
NextQuota ==
    \E p \in Procs :
        \/ cacheCall(p)
        \/ cacheIncr(p)
        \/ cacheDecr(p)
        \/ cacheMutiIncr(p)
        \/ cacheMutiDecr(p)
InitQuota == InitWith(QuotaSeeds, MaxCreateCalls)
SpecQuota == InitQuota /\ [][NextQuota]_vars

\* the send handlers, with the clock running
StrategyCalls ==
    \E p \in Procs :
        \/ SendNotification(p)
        \/ SendNotificationAsync(p)
        \/ srvValidate(p)
        \/ srvReplaceAsyncImmediate(p)
        \/ SetSendTime(p)
        \/ srvCreate(p)
        \/ srvMarkSuccess(p)
        \/ srvMarkSuccessFails(p)
        \/ daoCreate(p)
        \/ CreateRefund(p)

InitStrategy == InitWith(FullSeed, MaxStrategyCalls)
NextStrategy == StrategyCalls \/ Tick
SpecStrategy == InitStrategy /\ [][NextStrategy]_vars

\* the creating operations, any seed
InitCreate == InitWith(AnySeed, MaxCreateCalls)
NextCreate == SingleCreates \/ BatchCreates
SpecCreate == InitCreate /\ [][NextCreate]_vars

\* a create, then the status writers of a single row
InitCAS == InitWith(FullSeed, MaxCalls)
NextCAS == SingleCreates \/ CasCalls \/ RowCalls
SpecCAS == InitCAS /\ [][NextCAS]_vars

\* the transactional protocol
InitTx == InitWith(FullSeed, MaxCalls)
NextTx == SingleCreates \/ TxCalls
SpecTx == InitTx /\ [][NextTx]_vars

\* the send path and the sweeper, with the clock running
InitSweep == InitWith(FullSeed, MaxCalls)
NextSweep == SingleCreates \/ CasCalls \/ RowCalls \/ Sweeps \/ Tick
SpecSweep == InitSweep /\ [][NextSweep]_vars

\* the creates and every operation that writes a status
Init == InitWith(FullSeed, MaxCalls)
Next ==
    \/ SingleCreates
    \/ CasCalls
    \/ RowCalls
    \/ BatchUpdates
    \/ Sweeps
    \/ TxCalls
    \/ Tick
Spec == Init /\ [][Next]_vars

\* the operations that refund, with failures
NextRefund == SingleCreates \/ SingleFaults \/ RowCalls \/ BatchUpdates
SpecRefund == Init /\ [][NextRefund]_vars

\* the distributed lock, with any options on each instance
LockCalls ==
    \/ \E p \in Procs : Lock(p) \/ lockTry(p) \/ Unlock(p) \/ unlockEval(p)
    \/ redisExpire
InitLock ==
    /\ InitCore(FullSeed, MaxLockCalls)
    /\ app = NewApp
    /\ lockKey = NoKey
    /\ \E opts \in [Mutexes -> LockerOptions] :
            dm = [m \in Mutexes |-> NewDistributeMutex(m, opts[m])]
    /\ etcd = NoServices
    /\ watchChan = <<>>
    /\ sd = NewServiceDiscovery
SpecLock == InitLock /\ [][LockCalls]_vars

\* the discovery client beside the services that register and deregister
WatchSteps == etcdPut \/ etcdDelete \/ StartWatch \/ watchOpen \/ watchEvent
InitWatch == InitWith(FullSeed, 0)
SpecWatch == InitWatch /\ [][WatchSteps]_vars

\* the batch send handler
BatchSendCalls ==
    \E p \in Procs :
        \/ BatchSendNotifications(p)
        \/ batchCreateDecr(p)
        \/ daoBatchCreate(p)
        \/ BatchCreateRefund(p)
        \/ srvBatchRespond(p)
InitBatchSend == InitWith(FullSeed, MaxStrategyCalls)
SpecBatchSend == InitBatchSend /\ [][BatchSendCalls]_vars

\* the creating operations, any seed, with failures of the store
NextCreateFault ==
    \/ SingleCreates
    \/ BatchCreates
    \/ \E p \in Procs : daoCreateFails(p)
    \/ BatchFaults
SpecCreateFault == InitCreate /\ [][NextCreateFault]_vars

\* a create and the status writers of a single row, any seed
InitOversell == InitWith(AnySeed, MaxCalls)
SpecOversell == InitOversell /\ [][NextCAS]_vars

\* the application serving single creates until it is shut down
AppSteps ==
    \/ appQuit
    \/ appServeFails
    \/ appDeregister
    \/ appClose
    \/ appGracefulStop
    \/ appStopped
InitApp == InitWith(AnySeed, MaxCreateCalls)
NextApp ==
    \/ \E p \in Procs : Accepting /\ (Create(p) \/ CreateWithCallbackLog(p))
    \/ \E p \in Procs : daoCreate(p) \/ CreateRefund(p)
    \/ AppSteps
SpecApp == InitApp /\ [][NextApp]_vars

\* ------------------------------------------------------------- properties
AllIdle == \A p \in Procs : pc[p] = "idle"

\* notifications stored on pair k on whose behalf no refund was issued
Unrefunded(k) ==
    Cardinality({i \in DOMAIN rows :
                    key(rows[i].bizID, rows[i].channel) = k /\ refunds[i] = 0})

\* C1: quota conservation.  Once every call has returned, the stored quota of
\* every (BizID, Channel) is the seeded quota minus the number of created
\* notifications that were never refunded.
C1_QuotaConservation ==
    AllIdle => \A k \in QuotaKeys : quota[k] = seed[k] - Unrefunded(k)

\* C3: a decrement that would drive a counter below zero leaves it as it was,
\* so the stored quota of every (BizID, Channel) is at least 0 in every state.
C3_QuotaNeverNegative == \A k \in QuotaKeys : quota[k] >= 0

RowsOf(bk) == {i \in DOMAIN rows : <<rows[i].bizID, rows[i].key>> = bk}
Attempts(bk) ==
    created[bk].nil + created[bk].ErrNotificationDuplicate + created[bk].ErrQuotaLessThenZero
RECURSIVE Sum(_, _)
Sum(f, S) == IF S = {} THEN 0 ELSE LET x == CHOOSE x \in S : TRUE IN f[x] + Sum(f, S \ {x})
EnoughForBoth == \A k \in QuotaKeys : seed[k] >= 2

\* C4: duplicate rejection.  When the only two calls made are single creates
\* with the same (BizID, Key), every counter was seeded with enough for both
\* and both have returned, then one row holds the key, one call returned nil
\* and the other ErrNotificationDuplicate, and the counters together stand 1
\* below their seeds, none above its seed.
C4_DuplicateRejected ==
    \A bk \in BizIDs \X Keys :
        (AllIdle /\ ncalls = 2 /\ Attempts(bk) = 2 /\ EnoughForBoth)
            => /\ Cardinality(RowsOf(bk)) = 1
               /\ created[bk].nil = 1
               /\ created[bk].ErrNotificationDuplicate = 1
               /\ \A k \in QuotaKeys : quota[k] <= seed[k]
               /\ Sum(seed, QuotaKeys) - Sum(quota, QuotaKeys) = 1

C4_Witness ==
    \E bk \in BizIDs \X Keys :
        /\ AllIdle /\ ncalls = 2 /\ EnoughForBoth
        /\ created[bk].nil = 1
        /\ created[bk].ErrNotificationDuplicate = 1
        /\ ret.err = "ErrNotificationDuplicate"

\* C6: batch all-or-nothing.  A BatchCreate / BatchCreateWithCallbackLog of a
\* list whose aggregated items exceed the quota of at least one pair returns
\* ErrQuotaLessThenZero at once, with every counter and the table as they were.
C6_BatchAllOrNothing ==
    [][\A p \in Procs :
        (/\ pc[p] = "batch_decr"
         /\ pc'[p] # "batch_decr"
         /\ Insufficient(quota, getItems(loc[p].batch)) # {})
            => /\ quota' = quota
               /\ rows' = rows
               /\ pc'[p] = "idle"
               /\ ret'.err = "ErrQuotaLessThenZero"]_vars

\* a batch over two pairs, one with enough quota and one without, was rejected
C6_Witness ==
    /\ AllIdle /\ ncalls = 1
    /\ ret.err = "ErrQuotaLessThenZero"
    /\ quota = seed /\ rows = <<>>
    /\ \E k1, k2 \in DOMAIN rejected :
        /\ seed[k1] > 0 /\ seed[k1] >= rejected[k1]
        /\ seed[k2] < rejected[k2]

\* C2: once every call has returned, every notification whose status FAILED
\* was written by MarkFailed, by the failed list of
\* BatchUpdateStatusSucceededOrFailed or by the timeout sweep has had exactly
\* one refund issued on its behalf.
C2_FailedRefundedOnce ==
    AllIdle =>
        \A i \in DOMAIN rows :
            (rows[i].status = SendStatusFailed
                /\ rows[i].via \in {"MarkFailed", "BatchUpdate", "Sweep"})
                => refunds[i] = 1

\* C5: CAS exclusivity.  The UPDATE of a CASStatus whose expected version is
\* the stored one writes the status, adds 1 to the version, touches no other
\* row and returns nil; with any other expected version it returns
\* ErrNotificationVersionMismatch and leaves the table as it was.  So of the
\* CASStatus calls on one notification with one expected version at most one
\* wins.
C5_CasExclusive ==
    /\ [][\A p \in Procs :
            (pc[p] = "cas_dao" /\ pc'[p] = "idle") =>
                LET n == loc[p].n
                IN  IF rows[n.id].version = n.version
                        THEN /\ ret'.err = "nil"
                             /\ rows'[n.id].version = n.version + 1
                             /\ rows'[n.id].status = n.status
                             /\ \A j \in DOMAIN rows \ {n.id} : rows'[j] = rows[j]
                        ELSE /\ ret'.err = "ErrNotificationVersionMismatch"
                             /\ rows' = rows]_vars
    /\ [](\A x \in DOMAIN casWon : casWon[x] <= 1)

\* two CASStatus calls with the stored version as expected version returned:
\* one won, one lost
C5_Witness ==
    \E x \in DOMAIN casWon :
        /\ AllIdle
        /\ casWon[x] = 1 /\ casLost[x] = 1
        /\ rows[x[1]].version = x[2] + 1
        /\ rows[x[1]].via = "CASStatus"
        /\ ret.err = "ErrNotificationVersionMismatch"

\* C7: terminal states are absorbing.  No step changes the status of a
\* notification that is SUCCEEDED, FAILED or CANCELED.
C7_TerminalAbsorbing ==
    [][\A i \in DOMAIN rows :
        rows[i].status \in TerminalStatuses => rows'[i].status = rows[i].status]_vars

\* C8: a notification is inserted with Version 1, whatever Version the caller
\* left in the entity; every status write (one UPDATE of the row) adds exactly
\* 1 to its Version, no step changes the status without such a write, and a
\* step without one leaves the Version alone: the Version never decreases and
\* is always 1 plus the number of status writes.
C8_VersionCounts ==
    /\ [](\A i \in DOMAIN rows : rows[i].version = 1 + rows[i].muts)
    /\ [][\A i \in DOMAIN rows' :
            IF i \notin DOMAIN rows
                THEN rows'[i].version = 1
                ELSE /\ rows'[i].muts >= rows[i].muts
                     /\ rows'[i].version - rows[i].version = rows'[i].muts - rows[i].muts
                     /\ rows'[i].status # rows[i].status => rows'[i].muts > rows[i].muts]_vars

\* a notification whose status was written twice since its insert
C8_Witness ==
    \E i \in DOMAIN rows :
        rows[i].muts = 2 /\ rows[i].version = 3 /\ rows[i].status # SendStatusPending

C10_SweepOnlyStale ==
    [][\A i \in DOMAIN rows :
        (rows'[i].via = "Sweep" /\ rows'[i].muts # rows[i].muts)
            => /\ rows[i].status = SendStatusSending
               /\ now - rows[i].at >= 1]_vars

\* the counter a single create of p decrements
OwnKey(p) == key(loc[p].n.bizID, loc[p].n.channel)

C12_ReserveBeforePersist ==
    [][/\ (ncalls' # ncalls /\ \E k \in QuotaKeys : quota'[k] < quota[k] /\ quota'[k] < 0)
            => (pc' = pc /\ rows' = rows /\ ret'.err = "ErrQuotaLessThenZero")
       /\ rows' # rows
            => \E p \in Procs :
                /\ pc[p] = "create_dao" /\ pc'[p] = "idle"
                /\ loc[p].before[OwnKey(p)] >= defaultQuotaNumber
                /\ Len(rows') = Len(rows) + 1
                /\ rows'[Len(rows')].key = loc[p].n.key]_vars

\* one create persisted its row, the next one was refused by the quota
C12_Witness ==
    /\ AllIdle /\ ncalls = 2
    /\ ret.err = "ErrQuotaLessThenZero"
    /\ Len(rows) = 1

RowsOn(k) == {i \in DOMAIN rows : key(rows[i].bizID, rows[i].channel) = k}
NoQuotaRejection == \A bk \in BizIDs \X Keys : created[bk].ErrQuotaLessThenZero = 0

\* C14: a creating call never leaves a counter decremented without a persisted
\* notification, a canceled context included.  Once every call has returned,
\* and none was refused by the quota, every counter is its seed minus the
\* notifications stored on its pair.
C14_NoLeakOnCancel ==
    (AllIdle /\ NoQuotaRejection)
        => \A k \in QuotaKeys : quota[k] = seed[k] - Cardinality(RowsOn(k))

\* C20: a notification has a callback log exactly when it was created through
\* CreateWithCallbackLog / BatchCreateWithCallbackLog, and an insert
\* transaction that fails leaves the table as it was.
C20_CallbackLogIffAsked ==
    /\ [](\A i \in DOMAIN rows : (rows[i].cb # "NONE") <=> rows[i].asked)
    /\ [][\A p \in Procs :
            (pc[p] \in {"create_dao", "batch_dao"} /\ pc'[p] \in {"create_refund", "batch_refund"})
                => rows' = rows]_vars

\* a notification with its callback log is stored, and a later insert failed
\* on its callback log and stored nothing
C20_Witness ==
    /\ AllIdle /\ ncalls = 2
    /\ ret.err = "ErrCreateCallbackLogFailed"
    /\ Len(rows) = 1
    /\ rows[1].cb = "INIT" /\ rows[1].asked

C17_WindowPerStrategy ==
    [][\A p \in Procs :
        (pc[p] = "srv_settime" /\ pc'[p] = "srv_create")
            => LET e == loc[p].cfg
                   T == UnixMilli(now)
                   w == <<loc'[p].n.stime, loc'[p].n.etime>>
               IN  /\ e.type = SendStrategyImmediate => w = <<T, T + 30 * 60 * 1000>>
                   /\ e.type = SendStrategyDelayed => w = <<T, T + e.delay>>
                   /\ e.type = SendStrategyScheduled
                        => w = <<e.scheduledTime - 3 * 1000, e.scheduledTime>>
                   /\ e.type = SendStrategyTimeWindow => w = <<e.startTime, e.endTime>>
                   /\ e.type = SendStrategyDeadline => w = <<T, e.deadlineTime>>]_vars

\* a handler has computed the window of a SCHEDULED request, three seconds
\* wide, at an instant later than the one the clock started at
C17_Witness ==
    \E p \in Procs :
        /\ pc[p] = "srv_create"
        /\ now > StartTick
        /\ loc[p].cfg.type = SendStrategyScheduled
        /\ loc[p].n.etime = loc[p].cfg.scheduledTime
        /\ loc[p].n.stime = loc[p].n.etime - 3000

Malformed(e, T) ==
    \/ e.type = SendStrategyDelayed /\ e.delay <= 0
    \/ e.type = SendStrategyScheduled /\ e.scheduledTime <= T
    \/ e.type = SendStrategyDeadline /\ e.deadlineTime <= T
    \/ e.type = SendStrategyTimeWindow /\ e.startTime > e.endTime

C21_PendingOnlyWithSucceeded ==
    [][\A i \in DOMAIN rows :
        (rows[i].cb # "PENDING" /\ rows'[i].cb = "PENDING")
            => rows'[i].status = SendStatusSucceeded]_vars

\* C22: MarkFailed(n) leaves the notification FAILED, whatever status the
\* caller put in n, and its refund raises the counter of (n.BizID, n.Channel)
\* by exactly 1.
C22_MarkFailedFailsAndRefunds ==
    [][\A p \in Procs :
        /\ (pc[p] = "idle" /\ pc'[p] = "mark_refund" /\ loc'[p].n.id \in DOMAIN rows)
                => rows'[loc'[p].n.id].status = SendStatusFailed
        /\ (pc[p] = "mark_refund" /\ pc'[p] = "idle")
                => quota'[OwnKey(p)] = quota[OwnKey(p)] + 1]_vars

\* C23: MarkSuccess sets the notification to SUCCEEDED and its callback log,
\* if it has one, to PENDING in one step, and changes no quota counter.
C23_MarkSuccessFrame ==
    [][\A i \in DOMAIN rows :
        (rows'[i].muts = rows[i].muts + 1 /\ rows'[i].via = "MarkSuccess")
            => /\ rows'[i].status = SendStatusSucceeded
               /\ rows[i].cb # "NONE" => rows'[i].cb = "PENDING"
               /\ quota' = quota]_vars

C25_RefundErrorSwallowed ==
    [][\A p \in Procs :
        (pc[p] \in {"create_refund", "batch_refund", "mark_refund", "bupdate_refund"}
            /\ pc'[p] = "idle")
            => ret'.err = loc[p].err]_vars

\* the items of list l whose key holds less than the item asks for
Short(q, l) == {i \in DOMAIN l : Get(q, l[i].k) < l[i].val}

\* C26: MutiDecr over a list of distinct keys is all-or-nothing.  If a key
\* holds less than its amount (an absent key holding 0), no key changes and
\* the error names the first such key in list order; otherwise every key of
\* the list goes down by its amount, none below zero, and no other key moves.
C26_MutiDecrAllOrNothing ==
    [][\A p \in Procs :
        (pc[p] = "cache_MutiDecr" /\ pc'[p] = "idle")
            => LET l == loc[p].batch
               IN  IF Short(quota, l) # {}
                      THEN /\ quota' = quota
                           /\ ret'.err = "ErrQuotaLessThenZero"
                           /\ \E i \in Short(quota, l) :
                                /\ \A j \in Short(quota, l) : i <= j
                                /\ ret'.n = l[i].k
                      ELSE /\ ret'.err = "nil"
                           /\ \A i \in DOMAIN l :
                                /\ l[i].k \in DOMAIN quota'
                                /\ quota'[l[i].k] = Get(quota, l[i].k) - l[i].val
                                /\ quota'[l[i].k] >= 0
                           /\ \A k \in QuotaKeys \ {l[i].k : i \in DOMAIN l} :
                                /\ k \in DOMAIN quota' <=> k \in DOMAIN quota
                                /\ k \in DOMAIN quota => quota'[k] = quota[k]]_vars

\* a MutiDecr of two items was rejected for its second key, the first one
\* having enough, and no counter moved
C26_Witness ==
    /\ AllIdle
    /\ ncalls = 1
    /\ ret.err = "ErrQuotaLessThenZero"
    /\ ret.n = <<1, "EMAIL">>
    /\ quota = seed
    /\ <<1, "SMS">> \in DOMAIN quota /\ quota[<<1, "SMS">>] > 0

\* C27: Incr(bizID, channel, n) sets the counter to n when it is negative,
\* zero or absent and adds n to it otherwise, in one step of the store: the
\* value it writes is computed from the value the same step found.
C27_IncrResetsOrAdds ==
    [][\A p \in Procs :
        (pc[p] = "cache_Incr" /\ pc'[p] = "idle")
            => LET k == loc[p].batch[1].k
                   n == loc[p].batch[1].val
               IN  /\ k \in DOMAIN quota'
                   /\ quota'[k] = IF k \notin DOMAIN quota \/ quota[k] <= 0
                                     THEN n ELSE quota[k] + n
                   /\ \A x \in QuotaKeys \ {k} :
                        /\ x \in DOMAIN quota' <=> x \in DOMAIN quota
                        /\ x \in DOMAIN quota => quota'[x] = quota[x]
                   /\ ret'.err = "nil"]_vars

\* an Incr is about to run on a counter that an earlier Decr left negative
C27_Witness ==
    \E p \in Procs :
        /\ pc[p] = "cache_Incr"
        /\ loc[p].batch[1].k \in DOMAIN quota
        /\ quota[loc[p].batch[1].k] < 0

\* C28: Decr(bizID, channel, n) subtracts n from the counter in every case; it
\* returns ErrQuotaLessThenZero exactly when the result is negative (the
\* negative value stays stored) and nil exactly when the result is >= 0.
C28_DecrAlwaysSubtracts ==
    [][\A p \in Procs :
        (pc[p] = "cache_Decr" /\ pc'[p] = "idle")
            => LET k == loc[p].batch[1].k
                   n == loc[p].batch[1].val
               IN  /\ k \in DOMAIN quota'
                   /\ quota'[k] = Get(quota, k) - n
                   /\ ret'.err = "ErrQuotaLessThenZero" <=> quota'[k] < 0
                   /\ ret'.err = "nil" <=> quota'[k] >= 0
                   /\ \A x \in QuotaKeys \ {k} :
                        /\ x \in DOMAIN quota' <=> x \in DOMAIN quota
                        /\ x \in DOMAIN quota => quota'[x] = quota[x]]_vars

\* a Decr on an absent counter has returned the error and left the counter
\* below zero
C28_Witness ==
    /\ AllIdle
    /\ ncalls = 1
    /\ ret = Result("ErrQuotaLessThenZero", <<>>)
    /\ \E k \in DOMAIN quota : k \notin DOMAIN seed /\ quota[k] < 0

\* Incr applied to the items of list l, one after the other
RECURSIVE IncrEach(_, _)
IncrEach(q, l) ==
    IF l = <<>> THEN q
    ELSE IncrEach(Incr(q, Head(l).k[1], Head(l).k[2], Head(l).val), Tail(l))

\* C29: MutiIncr over distinct keys leaves every counter as Incr, applied to
\* each item on its own, would (reset to n when negative, add n otherwise, an
\* absent key holding 0), and never refuses.
C29_MutiIncrAsIncr ==
    [][\A p \in Procs :
        (pc[p] = "cache_MutiIncr" /\ pc'[p] = "idle")
            => /\ quota' = IncrEach(quota, loc[p].batch)
               /\ ret'.err = "nil"]_vars

\* a MutiIncr is about to run on two keys, one negative and one absent
C29_Witness ==
    \E p \in Procs :
        /\ pc[p] = "cache_MutiIncr"
        /\ Len(loc[p].batch) = 2
        /\ \E i, j \in DOMAIN loc[p].batch :
            /\ loc[p].batch[i].k \in DOMAIN quota /\ quota[loc[p].batch[i].k] < 0
            /\ loc[p].batch[j].k \notin DOMAIN quota

CallNames == [i \in DOMAIN app.calls |-> app.calls[i].call]

Live(k) ==
    {i \in DOMAIN rows :
        /\ key(rows[i].bizID, rows[i].channel) = k
        /\ rows[i].status \in {SendStatusPrepare, SendStatusPending, SendStatusSending,
                               SendStatusSucceeded}}

\* C33: no oversell: in every state, for each (BizID, Channel), the stored
\* notifications in status PREPARE, PENDING, SENDING or SUCCEEDED are at most
\* as many as the quota seeded for the pair.
C33_NoOversell == \A k \in QuotaKeys : Cardinality(Live(k)) <= seed[k]

\* the notifications stored on pair k
Persisted(k) == {i \in DOMAIN rows : key(rows[i].bizID, rows[i].channel) = k}

\* C34: when only creation calls ran, each ending in success, in a quota
\* rejection or in a failed insert with its refund, and all have returned,
\* max(0, counter) is the seeded quota minus the notifications stored on the
\* pair: what rejected decrements left below zero is undone by the reset of
\* a later refund.
C34_CreationConservation ==
    AllIdle =>
        \A k \in QuotaKeys :
            (IF quota[k] > 0 THEN quota[k] ELSE 0) = seed[k] - Cardinality(Persisted(k))

\* a create was rejected on a counter another create had taken to 0, that
\* create failed at the store, and its refund reset the counter to the seed
C34_Witness ==
    /\ AllIdle /\ ncalls = 2 /\ rows = <<>>
    /\ Sum([bk \in BizIDs \X Keys |-> created[bk].ErrQuotaLessThenZero], BizIDs \X Keys) = 1
    /\ \E k \in QuotaKeys :
        /\ seed[k] = 1 /\ quota[k] = 1
        /\ \A k2 \in QuotaKeys \ {k} : seed[k2] = MaxQuota

\* C35: MarkSuccess and MarkFailed called for an ID that matches no stored
\* notification change nothing: the table (statuses and callback logs) and
\* every quota counter stay as they were, in the update and in the refund
\* step of MarkFailed.
C35_UnknownIDChangesNothing ==
    [][\A p \in Procs :
        /\ \A n \in MarkEntities(SendStatusSucceeded) :
                (n.id \notin DOMAIN rows /\ repoMarkSuccess(p, n))
                    => rows' = rows /\ quota' = quota
        /\ (pc[p] = "idle" /\ pc'[p] = "mark_refund" /\ loc'[p].n.id \notin DOMAIN rows)
                => rows' = rows /\ quota' = quota
        /\ (pc[p] = "mark_refund" /\ pc'[p] = "idle" /\ loc[p].n.id \notin DOMAIN rows)
                => rows' = rows /\ quota' = quota]_vars

C38_LockMutualExclusion ==
    [][/\ Cardinality({m \in Mutexes : dm'[m].lease > 0}) <= 1
       /\ \A p \in Procs :
            /\ (pc[p] = "lock_try" /\ pc'[p] = "idle" /\ ret'.err = "nil")
                  => /\ \A m \in Mutexes : dm[m].lease = 0
                     /\ dm'[loc[p].dm].lease > 0
            /\ (pc[p] = "lock_try" /\ pc'[p] = "idle" /\ ret'.err = "ErrLockFailed")
                  => /\ dm'[loc[p].dm].attempts <= dm[loc[p].dm].options.RetryCount + 1
                     /\ \E m \in Mutexes : dm[m].lease > 0
            /\ (pc[p] = "lock_try" /\ pc'[p] = "lock_try")
                  => dm'[loc[p].dm].attempts <= dm[loc[p].dm].options.RetryCount]_vars

\* a Lock has returned ErrLockFailed after all the attempts its RetryCount
\* allows, more than one, while another instance holds the lock
C38_Witness ==
    /\ ret.err = "ErrLockFailed"
    /\ \E m, h \in Mutexes :
        /\ m # h
        /\ dm[h].lease > 0
        /\ dm[m].options.RetryCount > 0
        /\ dm[m].attempts = dm[m].options.RetryCount + 1
        /\ ~dm[m].lock

\* C39: Unlock deletes the key only when the key holds the caller's own
\* token: the Unlock of the holder removes the key and returns nil; any other
\* Unlock (of a former holder whose lock expired, of an instance that never
\* held it) returns ErrUnLockFailed and leaves the key and its holder alone.
C39_UnlockOwnTokenOnly ==
    [][\A p \in Procs :
        (pc[p] = "unlock_eval" /\ pc'[p] = "idle")
            => IF dm[loc[p].dm].lease > 0
                 THEN /\ ret'.err = "nil"
                      /\ lockKey' = NoKey
                 ELSE /\ ret'.err = "ErrUnLockFailed"
                      /\ lockKey' = lockKey
                      /\ \A m \in Mutexes : dm'[m].lease = dm[m].lease]_vars

\* the late Unlock of a former holder has failed and the instance that
\* acquired the lock after the expiration still holds it
C39_Witness ==
    /\ ret.err = "ErrUnLockFailed"
    /\ \E m, h \in Mutexes :
        /\ m # h
        /\ dm[m].held = "late"
        /\ dm[h].lease > 0
        /\ lockKey.value = dm[h].value

\* C40: once the watch runs and has handled every event, the cache lists for
\* each service exactly the address stored under its key, once, and a service
\* without a key is absent from the cache.
C40_CacheMatchesStore ==
    (sd.pc = "watching" /\ watchChan = <<>>)
        => \A s \in Services :
            IF etcd.kv[s] = "" THEN s \notin DOMAIN sd.serviceCache
            ELSE /\ s \in DOMAIN sd.serviceCache
                 /\ sd.serviceCache[s] = <<etcd.kv[s]>>
====
